---- MODULE Spec2Model ----
(***************************************************************************)
(* Model of camera_feed_server.py: the process-wide capture handle         *)
(* (get_camera), the per-connection MJPEG loop (generate_frames) run by    *)
(* one thread per connection (app.run(threaded=True)), and the shutdown    *)
(* path of __main__.                                                       *)
(*                                                                         *)
(* A thread step is one access to shared state (a load or store of the     *)
(* global `camera`, a call on a capture handle, a clock reading, a yield). *)
(* Time is a discrete clock `now` with TicksPerSec ticks per second.       *)
(* The routes index and health and the DEBUG statistics only read DEVICE   *)
(* and log; they touch none of the state below and are left out.           *)
(***************************************************************************)
EXTENDS Integers, Sequences, FiniteSets

\* ---- bounds -------------------------------------------------------------
NumViewers == 2     \* connections (one thread each)
MaxReads == 3       \* cam.read() calls per viewer loop
TicksPerSec == 1    \* clock resolution
MaxTicks == 2       \* how far the clock advances after start

Viewers == 1..NumViewers
None == 0                          \* Python None for camera / cam / FPS_LIMIT
StartTime == TicksPerSec + 1       \* time.time() at start: epoch seconds, far above any 1/F
EndTime == StartTime + MaxTicks
FpsChoices == {None, 1, TicksPerSec}   \* --fps: unset, or an integer F > 0

VARIABLES
    camera,           \* global `camera`: None or a handle id
    handles,          \* every cv2.VideoCapture object constructed so far
    FPS_LIMIT,        \* global FPS_LIMIT (None or F)
    now,              \* time.time()
    mainpc,           \* main thread: app.run / finally block
    pc,               \* per viewer thread: position in video_feed/generate_frames/get_camera
    tmp,              \* per viewer: VideoCapture(DEVICE) result not yet stored to `camera`
    cam,              \* per viewer: local `cam` of generate_frames
    last_frame_time,  \* per viewer: local last_frame_time
    frame_count,      \* per viewer: local frame_count
    wake,             \* per viewer: end of the current time.sleep()
    log,              \* per viewer: outcome of each cam.read() / imencode so far
    emitted,          \* per viewer: frame numbers of the segments yielded so far
    lastEmit,         \* per viewer: clock reading at the latest yield (None if none)
    overlapping       \* environment: whether connections may overlap in this run

vars == <<camera, handles, FPS_LIMIT, now, mainpc, pc, tmp, cam,
          last_frame_time, frame_count, wake, log, emitted, lastEmit, overlapping>>

config == <<FPS_LIMIT, overlapping>>
shared == <<camera, handles>>
locals == <<tmp, cam, last_frame_time, frame_count, wake, log, emitted, lastEmit>>

\* ---- capture handles ------------------------------------------------------
\* cv2.VideoCapture(DEVICE): the object always exists after construction;
\* whether the device was opened is a property of the object.
NewHandle(ok) == [opened |-> ok, releases |-> 0, bufsets |-> 0]

isOpened(h) == handles[h].opened /\ handles[h].releases = 0

\* A handle is reachable from the program while the global or a thread holds it.
Referenced(h) == camera = h \/ \E t \in Viewers : tmp[t] = h \/ cam[t] = h

\* Handles that hold the device open.
LiveHandles == {h \in 1..Len(handles) : isOpened(h) /\ Referenced(h)}

OpenAttempts == Len(handles)

\* How many times the device has been opened.
DeviceOpens == Cardinality({h \in 1..Len(handles) : handles[h].opened})

\* 1.0 / FPS_LIMIT in clock ticks
min_frame_time == TicksPerSec \div FPS_LIMIT

Last(s) == s[Len(s)]

\* ---- initial state ----------------------------------------------------------
Init ==
    /\ camera = None
    /\ handles = <<>>
    /\ FPS_LIMIT \in FpsChoices
    /\ now = StartTime
    /\ mainpc = "serving"
    /\ pc = [t \in Viewers |-> "idle"]
    /\ tmp = [t \in Viewers |-> None]
    /\ cam = [t \in Viewers |-> None]
    /\ last_frame_time = [t \in Viewers |-> 0]
    /\ frame_count = [t \in Viewers |-> 0]
    /\ wake = [t \in Viewers |-> 0]
    /\ log = [t \in Viewers |-> <<>>]
    /\ emitted = [t \in Viewers |-> <<>>]
    /\ lastEmit = [t \in Viewers |-> None]
    /\ overlapping \in BOOLEAN

\* The process is alive (request threads are daemon threads of the server).
Alive == mainpc # "exited"

\* ---- the clock ----------------------------------------------------------------
\* The clock is only read when an FPS cap is set.
Tick ==
    /\ Alive
    /\ FPS_LIMIT # None
    /\ now < EndTime
    /\ now' = now + 1
    /\ UNCHANGED <<camera, handles, config, mainpc, pc, locals>>

\* ---- video_feed ------------------------------------------------------------
\* No other request is in progress.
Quiet(t) == \A u \in Viewers \ {t} : pc[u] \in {"idle", "gone"}

\* GET /video_feed: a new thread runs generate_frames(), which calls get_camera().
\* The server accepts a connection at any time; in a run without overlapping
\* connections the client connects only when no other request is in progress.
video_feed(t) ==
    /\ mainpc = "serving"
    /\ pc[t] = "idle"
    /\ overlapping \/ Quiet(t)
    /\ pc' = [pc EXCEPT ![t] = "gc_check"]
    /\ UNCHANGED <<shared, config, now, mainpc, locals>>

\* ---- get_camera --------------------------------------------------------------
\* Mutant of gc_check: the `camera is None` test is lost and every call opens the device.
gc_check_always_open(t) ==
    /\ Alive
    /\ pc[t] = "gc_check"
    /\ pc' = [pc EXCEPT ![t] = "gc_open"]
    /\ UNCHANGED <<shared, config, now, mainpc, locals>>

\* `if camera is None:`
gc_check(t) ==
    /\ Alive
    /\ pc[t] = "gc_check"
    /\ pc' = [pc EXCEPT ![t] = IF camera = None THEN "gc_open" ELSE "gc_return"]
    /\ UNCHANGED <<shared, config, now, mainpc, locals>>

\* `cv2.VideoCapture(DEVICE)`: the device opens or not.
gc_open(t) ==
    /\ Alive
    /\ pc[t] = "gc_open"
    /\ \E ok \in BOOLEAN :
         /\ handles' = Append(handles, NewHandle(ok))
         /\ tmp' = [tmp EXCEPT ![t] = Len(handles) + 1]
    /\ pc' = [pc EXCEPT ![t] = "gc_store"]
    /\ UNCHANGED <<camera, config, now, mainpc, cam, last_frame_time,
                   frame_count, wake, log, emitted, lastEmit>>

\* `camera = ...`: the store to the global.
gc_store(t) ==
    /\ Alive
    /\ pc[t] = "gc_store"
    /\ camera' = tmp[t]
    /\ tmp' = [tmp EXCEPT ![t] = None]
    /\ pc' = [pc EXCEPT ![t] = "gc_isopened"]
    /\ UNCHANGED <<handles, config, now, mainpc, cam, last_frame_time,
                   frame_count, wake, log, emitted, lastEmit>>

\* `if not camera.isOpened(): raise RuntimeError(...)`
gc_isopened(t) ==
    /\ Alive
    /\ pc[t] = "gc_isopened"
    /\ pc' = [pc EXCEPT ![t] = IF isOpened(camera) THEN "gc_set" ELSE "raised"]
    /\ UNCHANGED <<shared, config, now, mainpc, locals>>

\* `camera.set(cv2.CAP_PROP_BUFFERSIZE, 1)`
gc_set(t) ==
    /\ Alive
    /\ pc[t] = "gc_set"
    /\ handles' = [handles EXCEPT ![camera].bufsets = @ + 1]
    /\ pc' = [pc EXCEPT ![t] = "gc_return"]
    /\ UNCHANGED <<camera, config, now, mainpc, locals>>

\* `return camera`, then `cam = get_camera()` and the locals of generate_frames.
gc_return(t) ==
    /\ Alive
    /\ pc[t] = "gc_return"
    /\ cam' = [cam EXCEPT ![t] = camera]
    /\ last_frame_time' = [last_frame_time EXCEPT ![t] = 0]
    /\ frame_count' = [frame_count EXCEPT ![t] = 0]
    /\ pc' = [pc EXCEPT ![t] = "loop_top"]
    /\ UNCHANGED <<shared, config, now, mainpc, tmp, wake, log, emitted, lastEmit>>

get_camera(t) ==
    \/ gc_check(t)
    \/ gc_open(t)
    \/ gc_store(t)
    \/ gc_isopened(t)
    \/ gc_set(t)
    \/ gc_return(t)

\* ---- generate_frames: the loop ------------------------------------------------
\* Mutant of RateLimit: the sleep is lost.
RateLimit_no_sleep(t) ==
    /\ Alive
    /\ pc[t] = "loop_top"
    /\ pc' = [pc EXCEPT ![t] = IF FPS_LIMIT = None THEN "read" ELSE "stamp"]
    /\ UNCHANGED <<shared, config, now, mainpc, locals>>

\* `if FPS_LIMIT:` ... `if time_since_last < min_frame_time: time.sleep(...)`
\* current_time is read here; the sleep, if any, lasts min_frame_time - time_since_last.
RateLimit(t) ==
    /\ Alive
    /\ pc[t] = "loop_top"
    /\ IF FPS_LIMIT = None
         THEN /\ pc' = [pc EXCEPT ![t] = "read"]
              /\ UNCHANGED wake
         ELSE LET time_since_last == now - last_frame_time[t]
              IN IF time_since_last < min_frame_time
                   THEN /\ wake' = [wake EXCEPT ![t] = now + (min_frame_time - time_since_last)]
                        /\ pc' = [pc EXCEPT ![t] = "sleeping"]
                   ELSE /\ pc' = [pc EXCEPT ![t] = "stamp"]
                        /\ UNCHANGED wake
    /\ UNCHANGED <<shared, config, now, mainpc, tmp, cam, last_frame_time,
                   frame_count, log, emitted, lastEmit>>

\* time.sleep returns once at least the requested time has passed.
SleepReturn(t) ==
    /\ Alive
    /\ pc[t] = "sleeping"
    /\ now >= wake[t]
    /\ wake' = [wake EXCEPT ![t] = 0]
    /\ pc' = [pc EXCEPT ![t] = "stamp"]
    /\ UNCHANGED <<shared, config, now, mainpc, tmp, cam, last_frame_time,
                   frame_count, log, emitted, lastEmit>>

\* `last_frame_time = time.time()`
Stamp(t) ==
    /\ Alive
    /\ pc[t] = "stamp"
    /\ last_frame_time' = [last_frame_time EXCEPT ![t] = now]
    /\ pc' = [pc EXCEPT ![t] = "read"]
    /\ UNCHANGED <<shared, config, now, mainpc, tmp, cam, frame_count,
                   wake, log, emitted, lastEmit>>

\* Mutant of Read: a failed read is retried (`continue`) instead of ending the loop.
Read_retry(t) ==
    /\ Alive
    /\ pc[t] = "read"
    /\ Len(log[t]) < MaxReads
    /\ \E success \in BOOLEAN :
         /\ success => isOpened(cam[t])
         /\ IF success
              THEN /\ frame_count' = [frame_count EXCEPT ![t] = @ + 1]
                   /\ log' = [log EXCEPT ![t] = Append(@, "read")]
                   /\ pc' = [pc EXCEPT ![t] = "encode"]
              ELSE /\ log' = [log EXCEPT ![t] = Append(@, "readfail")]
                   /\ pc' = [pc EXCEPT ![t] = "loop_top"]
                   /\ UNCHANGED frame_count
    /\ UNCHANGED <<shared, config, now, mainpc, tmp, cam, last_frame_time,
                   wake, emitted, lastEmit>>

\* Mutant of Read: a failed read releases the shared handle before the loop ends.
Read_release_on_failure(t) ==
    /\ Alive
    /\ pc[t] = "read"
    /\ Len(log[t]) < MaxReads
    /\ \E success \in BOOLEAN :
         /\ success => isOpened(cam[t])
         /\ IF success
              THEN /\ frame_count' = [frame_count EXCEPT ![t] = @ + 1]
                   /\ log' = [log EXCEPT ![t] = Append(@, "read")]
                   /\ pc' = [pc EXCEPT ![t] = "encode"]
                   /\ UNCHANGED handles
              ELSE /\ log' = [log EXCEPT ![t] = Append(@, "readfail")]
                   /\ pc' = [pc EXCEPT ![t] = "done"]
                   /\ handles' = [handles EXCEPT ![cam[t]].releases = @ + 1]
                   /\ UNCHANGED frame_count
    /\ UNCHANGED <<camera, config, now, mainpc, tmp, cam, last_frame_time,
                   wake, emitted, lastEmit>>

\* `success, frame = cam.read()`; `if not success: break`; `frame_count += 1`.
\* A handle that is not open cannot deliver a frame; an open one may fail.
Read(t) ==
    /\ Alive
    /\ pc[t] = "read"
    /\ Len(log[t]) < MaxReads
    /\ \E success \in BOOLEAN :
         /\ success => isOpened(cam[t])
         /\ IF success
              THEN /\ frame_count' = [frame_count EXCEPT ![t] = @ + 1]
                   /\ log' = [log EXCEPT ![t] = Append(@, "read")]
                   /\ pc' = [pc EXCEPT ![t] = "encode"]
              ELSE /\ log' = [log EXCEPT ![t] = Append(@, "readfail")]
                   /\ pc' = [pc EXCEPT ![t] = "done"]
                   /\ UNCHANGED frame_count
    /\ UNCHANGED <<shared, config, now, mainpc, tmp, cam, last_frame_time,
                   wake, emitted, lastEmit>>

\* Mutant of Encode: a failed encode ends the loop (`break`) instead of skipping the frame.
Encode_break(t) ==
    /\ Alive
    /\ pc[t] = "encode"
    /\ \E ret \in BOOLEAN :
         /\ log' = [log EXCEPT ![t][Len(log[t])] = IF ret THEN "ok" ELSE "encfail"]
         /\ pc' = [pc EXCEPT ![t] = IF ret THEN "yield" ELSE "done"]
    /\ UNCHANGED <<shared, config, now, mainpc, tmp, cam, last_frame_time,
                   frame_count, wake, emitted, lastEmit>>

\* cv2.resize, then `ret, buffer = cv2.imencode(...)`; `if not ret: continue`.
Encode(t) ==
    /\ Alive
    /\ pc[t] = "encode"
    /\ \E ret \in BOOLEAN :
         /\ log' = [log EXCEPT ![t][Len(log[t])] = IF ret THEN "ok" ELSE "encfail"]
         /\ pc' = [pc EXCEPT ![t] = IF ret THEN "yield" ELSE "loop_top"]
    /\ UNCHANGED <<shared, config, now, mainpc, tmp, cam, last_frame_time,
                   frame_count, wake, emitted, lastEmit>>

\* `yield (b'--frame...' + frame_bytes + b'\r\n')`: one multipart segment leaves the loop.
Yield(t) ==
    /\ Alive
    /\ pc[t] = "yield"
    /\ emitted' = [emitted EXCEPT ![t] = Append(@, frame_count[t])]
    /\ lastEmit' = [lastEmit EXCEPT ![t] = now]
    /\ pc' = [pc EXCEPT ![t] = "yielded"]
    /\ UNCHANGED <<shared, config, now, mainpc, tmp, cam, last_frame_time,
                   frame_count, wake, log>>

\* The response asks the generator for the next segment.
Resume(t) ==
    /\ Alive
    /\ pc[t] = "yielded"
    /\ pc' = [pc EXCEPT ![t] = "loop_top"]
    /\ UNCHANGED <<shared, config, now, mainpc, locals>>

\* The client disconnects: the generator is closed at its yield.
Disconnect(t) ==
    /\ Alive
    /\ pc[t] = "yielded"
    /\ pc' = [pc EXCEPT ![t] = "closed"]
    /\ UNCHANGED <<shared, config, now, mainpc, locals>>

\* The request is over (loop broke, generator closed, or get_camera raised):
\* the thread ends and the generator's locals are gone.
Finished(t) ==
    /\ Alive
    /\ pc[t] \in {"done", "closed", "raised"}
    /\ pc' = [pc EXCEPT ![t] = "gone"]
    /\ cam' = [cam EXCEPT ![t] = None]
    /\ last_frame_time' = [last_frame_time EXCEPT ![t] = 0]
    /\ frame_count' = [frame_count EXCEPT ![t] = 0]
    /\ log' = [log EXCEPT ![t] = <<>>]
    /\ emitted' = [emitted EXCEPT ![t] = <<>>]
    /\ lastEmit' = [lastEmit EXCEPT ![t] = None]
    /\ UNCHANGED <<shared, config, now, mainpc, tmp, wake>>

generate_frames(t) ==
    \/ get_camera(t)
    \/ RateLimit(t)
    \/ SleepReturn(t)
    \/ Stamp(t)
    \/ Read(t)
    \/ Encode(t)
    \/ Yield(t)
    \/ Resume(t)
    \/ Disconnect(t)
    \/ Finished(t)

\* ---- __main__: app.run and the finally block -----------------------------------
\* app.run returns or KeyboardInterrupt is caught.
Interrupt ==
    /\ mainpc = "serving"
    /\ mainpc' = "finally"
    /\ UNCHANGED <<shared, config, now, pc, locals>>

\* `if camera is not None:`
FinallyCheck ==
    /\ mainpc = "finally"
    /\ mainpc' = IF camera # None THEN "release" ELSE "exited"
    /\ UNCHANGED <<shared, config, now, pc, locals>>

\* `camera.release()`
Release ==
    /\ mainpc = "release"
    /\ handles' = [handles EXCEPT ![camera].releases = @ + 1]
    /\ mainpc' = "exited"
    /\ UNCHANGED <<camera, config, now, pc, locals>>

Shutdown == Interrupt \/ FinallyCheck \/ Release

\* ---- specifications --------------------------------------------------------------
\* One thread per connection (threaded=True): any interleaving of the threads' steps.
Next ==
    \/ Tick
    \/ Shutdown
    \/ \E t \in Viewers : video_feed(t) \/ generate_frames(t)

Spec == Init /\ [][Next]_vars

\* The runs in which connections do not overlap: requests are served one after another.
InitSeq == Init /\ ~overlapping

SpecSeq == InitSeq /\ [][Next]_vars

\* ---- what a loop has read and emitted -------------------------------------------
\* <<1, 2, ..., n>>
Iota(n) == [i \in 1..n |-> i]

\* The frame number of the i-th read: the successful reads up to and including it.
FrameNo(lg, i) == Cardinality({j \in 1..i : lg[j] # "readfail"})

\* The frame numbers, in read order, of the frames of lg[1..n] that were read and encoded.
RECURSIVE GoodFrames(_, _)
GoodFrames(lg, n) ==
    IF n = 0 THEN <<>>
    ELSE IF lg[n] = "ok" THEN Append(GoodFrames(lg, n - 1), FrameNo(lg, n))
    ELSE GoodFrames(lg, n - 1)

\* The loop is between two iterations, or in the rate limiter or the read of one.
BetweenFrames(t) == pc[t] \in {"yielded", "loop_top", "sleeping", "stamp", "read"}

\* The handle was constructed with the device opened.
Opened(h) == handles[h].opened

\* ---- C1 ----------------------------------------------------------------------------
\* C1: with one thread per connection, the device is opened at most once, at most
\* one handle holds the device, and all viewers in their loops use the same handle.
C1_SingleHandle ==
    /\ DeviceOpens <= 1
    /\ Cardinality(LiveHandles) <= 1
    /\ \A t, u \in Viewers : (cam[t] # None /\ cam[u] # None) => cam[t] = cam[u]

\* ---- C2 ----------------------------------------------------------------------------
\* C2: when get_camera() fails with the device-open error, the global camera is
\* still None after the call.
C2_FailedOpenLeavesNone ==
    \A t \in Viewers : pc[t] = "raised" => camera = None

\* ---- C3 ----------------------------------------------------------------------------
\* C3: a get_camera() call never skips the open attempt or returns a handle while
\* no opened handle exists: after failed opens every further call tries again and
\* either opens the device or fails with the device-open error.
C3_RetryAfterFailedOpen ==
    \A t \in Viewers :
        /\ pc[t] = "gc_return" => Opened(camera)
        /\ cam[t] # None => Opened(cam[t])

\* ---- C4 ----------------------------------------------------------------------------
\* C4: in a loop whose encodes all succeed, every frame read so far is emitted once,
\* in read order; a failed read is the last read, it ends the loop (no exception),
\* and if it is the k-th read exactly k-1 segments have been emitted.
C4_SegmentsUntilReadFailure ==
    \A t \in Viewers :
        (\A i \in 1..Len(log[t]) : log[t][i] # "encfail") =>
            /\ \A i \in 1..Len(log[t]) :
                 log[t][i] = "readfail" =>
                    /\ i = Len(log[t])
                    /\ pc[t] = "done"
                    /\ emitted[t] = Iota(i - 1)
            /\ BetweenFrames(t) => emitted[t] = Iota(Len(log[t]))
            /\ pc[t] = "yield" => emitted[t] = Iota(Len(log[t]) - 1)
            /\ pc[t] = "done" => Len(log[t]) >= 1 /\ Last(log[t]) = "readfail"
            /\ Len(log[t]) >= 1 => pc[t] # "raised"

\* The third read fails under an FPS cap: two segments, then the loop has ended.
C4_Witness ==
    \E t \in Viewers :
        /\ FPS_LIMIT # None
        /\ pc[t] = "done"
        /\ log[t] = <<"ok", "ok", "readfail">>
        /\ emitted[t] = <<1, 2>>

\* ---- C5 ----------------------------------------------------------------------------
\* C5: a frame whose encode fails is skipped and the loop goes on to the next read;
\* the segments emitted are exactly the frames read and encoded, in read order.
C5_EncodeFailureSkipsFrame ==
    \A t \in Viewers :
        /\ emitted[t] = GoodFrames(log[t], IF pc[t] = "yield" THEN Len(log[t]) - 1
                                                               ELSE Len(log[t]))
        /\ (Len(log[t]) >= 1 /\ Last(log[t]) = "encfail") =>
               pc[t] \in {"loop_top", "sleeping", "stamp", "read"}
        /\ pc[t] = "done" => Last(log[t]) = "readfail"

\* The first frame's encode failed, the second frame was emitted.
C5_Witness ==
    \E t \in Viewers :
        /\ Len(log[t]) >= 2
        /\ log[t][1] = "encfail"
        /\ log[t][2] = "ok"
        /\ emitted[t] = <<2>>

C7_Isolation ==
    [][\A t \in Viewers :
          (pc[t] = "read" /\ pc'[t] = "done") =>
              /\ \A u \in Viewers \ {t} :
                    /\ pc'[u] = pc[u]
                    /\ cam'[u] = cam[u]
                    /\ frame_count'[u] = frame_count[u]
                    /\ last_frame_time'[u] = last_frame_time[u]
                    /\ log'[u] = log[u]
                    /\ emitted'[u] = emitted[u]
              /\ camera' = camera
              /\ handles' = handles
              /\ mainpc' = mainpc]_vars

\* One loop has ended on a failed read; another, on the same handle, has read a
\* frame after that and is about to emit it.
C7_Witness ==
    \E t, u \in Viewers :
        /\ t # u
        /\ pc[t] = "done"
        /\ Len(log[t]) = 1
        /\ cam[u] = cam[t]
        /\ pc[u] = "yield"
        /\ Len(emitted[u]) >= 1

\* ---- C8 ----------------------------------------------------------------------------
\* C8: with requests one after another, once a handle with the device opened is in
\* `camera`, it is the only handle ever constructed, its buffer setting has been
\* applied at most once, and every call has returned that handle.
C8_Idempotent ==
    (camera # None /\ Opened(camera)) =>
        /\ OpenAttempts = 1
        /\ handles[camera].bufsets <= 1
        /\ \A t \in Viewers : cam[t] # None => cam[t] = camera

\* A later request's call has returned the handle that an earlier, finished request opened.
C8_Witness ==
    \E t, u \in Viewers :
        /\ t # u
        /\ pc[t] = "gone"
        /\ pc[u] = "loop_top"
        /\ cam[u] = camera
        /\ Opened(camera)
        /\ handles[camera].bufsets = 1

\* ---- C9 ----------------------------------------------------------------------------
\* C9: when the finally block has run, every handle that opened the device and is
\* still held by the program has been released exactly once; no handle is released
\* more than once.
C9_AllReleasedAtExit ==
    /\ \A h \in 1..Len(handles) : handles[h].releases <= 1
    /\ mainpc = "exited" =>
          \A h \in 1..Len(handles) :
              (Opened(h) /\ Referenced(h)) => handles[h].releases = 1

\* ---- C10 ---------------------------------------------------------------------------
\* C10: once `camera` holds a handle, no step ever sets it to None or to another handle.
C10_CameraNeverReplaced ==
    [][camera # None => camera' = camera]_vars

====
